---- MODULE Spec2Model ----
(***************************************************************************)
(* State-machine model of netbox/circuits/views.py: the request handlers   *)
(* for Providers, CircuitTypes, Circuits and Terminations.  One action per *)
(* view; the Entity Store is the shared state, and the last request and    *)
(* its response are recorded so that properties can speak about them.      *)
(*                                                                         *)
(* Abstractions: a Provider / CircuitType row is slug |-> name, a Circuit  *)
(* row is pk |-> provider slug, a Termination row is pk |-> [circuit,      *)
(* site]; other attributes (tenant, type, contact info, speeds) are read   *)
(* by no handler of the module and are left out.  An update through an     *)
(* Edit view keeps the row's slug (its form posts the slug unchanged).     *)
(***************************************************************************)
EXTENDS Integers, Sequences, FiniteSets, TLC

\* ---------------------------------------------------------------- bounds
MaxCircuitPk == 1
MaxTerminationPk == 2

\* ------------------------------------------------------------ input sets
Slugs == {"acme"}
Names == {"Acme"}
TypeSlugs == {"internet"}
Sites == {"s1"}
Methods == {"GET", "POST"}
Users == {"editor", "remover"}
None == "None"

CircuitPks == 1..MaxCircuitPk
TerminationPks == 1..MaxTerminationPk

\* extras.models: Graph rows are distinguished by their type only.
GRAPH_TYPE_PROVIDER == "provider"
GraphTypes == {GRAPH_TYPE_PROVIDER, "site"}

\* Two representative callers, each lacking some permission: the editor may
\* add and change but not delete, the remover may delete only.
UserPerms(user) ==
    IF user = "editor"
    THEN {"circuits.add_provider", "circuits.change_provider",
          "circuits.change_circuittype", "circuits.add_circuit", "circuits.change_circuit"}
    ELSE {"circuits.delete_provider", "circuits.delete_circuittype",
          "circuits.delete_circuit"}

VARIABLES
    providers,          \* Provider rows: slug |-> name
    circuitTypes,       \* CircuitType rows: slug |-> name
    circuits,           \* Circuit rows: pk |-> provider slug
    terminations,       \* Termination rows: pk |-> [circuit, site]
    nextCircuitPk,      \* the store's next automatic Circuit pk
    nextTerminationPk,  \* the store's next automatic Termination pk
    graphs,             \* the types of the Graph rows in the store
    req,                \* the last request handled
    resp,               \* the response to it
    pc,                 \* interleaved handlers: where each one stands
    job                 \* interleaved handlers: request, fetched row, outcome

store == <<providers, circuitTypes, circuits, terminations,
           nextCircuitPk, nextTerminationPk, graphs>>
vars == <<providers, circuitTypes, circuits, terminations,
          nextCircuitPk, nextTerminationPk, graphs, req, resp, pc, job>>

\* ------------------------------------------------------------- responses
NoContext == [empty |-> TRUE]
NoTarget == <<>>
NoNotice == [text |-> None, args |-> <<>>]

Response(kind, template, context, target, notice) ==
    [kind |-> kind, template |-> template, context |-> context,
     target |-> target, notice |-> notice]

\* django.shortcuts.render: a 200 page from a template and its context.
render(template, context) == Response("Rendered", template, context, NoTarget, NoNotice)

\* django.shortcuts.redirect, with the success notice queued for the caller.
redirect(target, notice) == Response("Redirect", None, NoContext, target, notice)

\* The Permission Gate's denial (the spec's Forbidden condition).
PermissionDenied == Response("Forbidden", None, NoContext, NoTarget, NoNotice)

\* get_object_or_404 found no row.
Http404 == Response("NotFound", None, NoContext, NoTarget, NoNotice)

\* An unhandled store error, surfaced by the framework.
ServerError == Response("ServerError", None, NoContext, NoTarget, NoNotice)

Request(view, method, user, id, form, addanother) ==
    [view |-> view, method |-> method, user |-> user, id |-> id,
     form |-> form, addanother |-> addanother]

NoForm == [empty |-> TRUE]

\* ---------------------------------------------------------------- helpers
has_perm(user, perm) == perm \in UserPerms(user)

Without(rows, ids) == [k \in DOMAIN rows \ ids |-> rows[k]]

With(rows, id, row) == [k \in DOMAIN rows \cup {id} |-> IF k = id THEN row ELSE rows[k]]

\* The display names (__str__) of a Circuit and of a Termination.
CircuitName(pk) == <<"Circuit", pk>>

TerminationName(t) == <<"Termination", t.site>>


\* ------------------------------------------------------------------ forms
UnboundForm == [bound |-> FALSE, errors |-> FALSE, data |-> NoForm]

\* A form bound to the posted data; it carries errors when it is not valid.
BoundForm(data, valid) == [bound |-> TRUE, errors |-> ~valid, data |-> data]

\* forms.TerminationForm: the site is required.  The circuit is no validated
\* field: posted circuit data (0: none posted) never makes the form invalid.
TerminationForm_is_valid(form) == form.site \in Sites

\* utilities.forms.ConfirmationForm: valid only with the confirmation set.
ConfirmationForm_is_valid(form) == form.confirm

\* ModelForm.save(commit=False): an unsaved Termination built from the
\* posted data (circuit 0: not set).
form_save_commit_false(form) == [circuit |-> form.circuit, site |-> form.site]

\* ---------------------------------------------------------- store writes
\* The store accepts a Termination row only if its circuit reference is
\* set and names a Circuit row (the required foreign key).
CanSaveTermination(circs, t) == t.circuit \in DOMAIN circs

\* Variant: the delete leaves the Terminations of the deleted Circuits.
DeleteCircuits_no_cascade(circs, terms, pks) ==
    [circuits |-> Without(circs, pks), terminations |-> terms]

\* Deleting Circuit rows cascades to their Terminations.
DeleteCircuits(circs, terms, pks) ==
    [circuits |-> Without(circs, pks),
     terminations |-> Without(terms, {k \in DOMAIN terms : terms[k].circuit \in pks})]

\* ------------------------------------------------------------ Terminations
\* Variant: the view without its permission decorator.
termination_add_unguarded(user) == TRUE

\* @permission_required('circuits.change_circuit')
termination_add_permitted(user) == has_perm(user, "circuits.change_circuit")

\* Variant: the circuit is looked up on a POST only.
termination_add_not_found_post_only(method, pk) ==
    method = "POST" /\ pk \notin DOMAIN circuits

\* circuit = get_object_or_404(Circuit, pk=pk), before the method is looked at
termination_add_not_found(method, pk) == pk \notin DOMAIN circuits

\* Variant: every POST is saved, the form valid or not.
termination_add_saves_any_post(method, form) == method = "POST"

\* if request.method == 'POST': ... if form.is_valid(): if not form.errors:
termination_add_saves(method, form) ==
    /\ method = "POST"
    /\ TerminationForm_is_valid(form)
    /\ ~BoundForm(form, TerminationForm_is_valid(form)).errors

\* Variant: the circuit is left as the form posted it.
new_termination_as_posted(form, pk) == form_save_commit_false(form)

\* new_termination = form.save(commit=False); new_termination.circuit = circuit
new_termination(form, pk) == [form_save_commit_false(form) EXCEPT !.circuit = pk]

\* Variant: "_addanother" is ignored.
termination_add_redirect_always_detail(pk, addanother) == <<"circuits:circuit", pk>>

\* if '_addanother' in request.POST: redirect('circuits:termination_add', pk)
\* else: redirect('circuits:circuit', pk)
termination_add_redirect(pk, addanother) ==
    IF addanother THEN <<"circuits:termination_add", pk>> ELSE <<"circuits:circuit", pk>>

\* The form the page is rendered with: unbound on GET, bound (with its
\* errors) on POST.
termination_add_form(method, form) ==
    IF method = "POST" THEN BoundForm(form, TerminationForm_is_valid(form)) ELSE UnboundForm

termination_add(user, method, pk, form, addanother) ==
    /\ req' = Request("termination_add", method, user, pk, form, addanother)
    /\ UNCHANGED <<providers, circuitTypes, circuits, nextCircuitPk, graphs, pc, job>>
    /\ IF ~termination_add_permitted(user)
       THEN resp' = PermissionDenied /\ UNCHANGED <<terminations, nextTerminationPk>>
       ELSE IF termination_add_not_found(method, pk)
       THEN resp' = Http404 /\ UNCHANGED <<terminations, nextTerminationPk>>
       ELSE IF termination_add_saves(method, form)
       THEN LET t == new_termination(form, pk) IN
            /\ nextTerminationPk <= MaxTerminationPk
            /\ IF CanSaveTermination(circuits, t)
               THEN /\ terminations' = With(terminations, nextTerminationPk, t)
                    /\ nextTerminationPk' = nextTerminationPk + 1
                    /\ resp' = redirect(termination_add_redirect(pk, addanother), NoNotice)
               ELSE /\ resp' = ServerError
                    /\ UNCHANGED <<terminations, nextTerminationPk>>
       ELSE /\ resp' = render("circuits/termination_edit.html",
                              [form |-> termination_add_form(method, form),
                               obj_type |-> "Termination",
                               cancel_url |-> <<"circuits:circuit", pk>>])
            /\ UNCHANGED <<terminations, nextTerminationPk>>

termination_delete_permitted(user) == has_perm(user, "circuits.delete_circuit")

\* Variant: every POST deletes, confirmed or not.
termination_delete_confirmed_any_post(method, form) == method = "POST"

\* if request.method == 'POST': form = ConfirmationForm(request.POST); if form.is_valid():
termination_delete_confirmed(method, form) ==
    method = "POST" /\ ConfirmationForm_is_valid(form)

\* Variant: the delete takes every Termination of the same circuit.
termination_delete_rows_of_circuit(terms, pk, termination) ==
    Without(terms, {k \in DOMAIN terms : terms[k].circuit = termination.circuit})

\* termination.delete(): removes the row with the instance's pk, if it is
\* still there.
termination_delete_rows(terms, pk, termination) == Without(terms, {pk})

\* Variant: the notice names the termination only.
termination_delete_notice_without_circuit(termination) ==
    [text |-> "Termination {0} has been deleted",
     args |-> <<TerminationName(termination)>>]

\* "Termination {0} has been deleted from {1}".format(termination, termination.circuit)
termination_delete_notice(termination) ==
    [text |-> "Termination {0} has been deleted from {1}",
     args |-> <<TerminationName(termination), CircuitName(termination.circuit)>>]

\* What follows termination.delete(): termination.circuit is loaded from the
\* store (a missing row raises DoesNotExist), then the notice and the redirect.
termination_delete_done(circs, termination) ==
    IF termination.circuit \in DOMAIN circs
    THEN redirect(<<"circuits:circuit", termination.circuit>>,
                  termination_delete_notice(termination))
    ELSE ServerError

termination_delete_form(method, form) ==
    IF method = "POST" THEN BoundForm(form, ConfirmationForm_is_valid(form)) ELSE UnboundForm

termination_delete(user, method, pk, form) ==
    /\ req' = Request("termination_delete", method, user, pk, form, FALSE)
    /\ UNCHANGED <<providers, circuitTypes, circuits, nextCircuitPk,
                   nextTerminationPk, graphs, pc, job>>
    /\ IF ~termination_delete_permitted(user)
       THEN resp' = PermissionDenied /\ UNCHANGED terminations
       ELSE IF pk \notin DOMAIN terminations
       THEN resp' = Http404 /\ UNCHANGED terminations
       ELSE LET termination == terminations[pk] IN
            IF termination_delete_confirmed(method, form)
            THEN /\ terminations' = termination_delete_rows(terminations, pk, termination)
                 /\ resp' = termination_delete_done(circuits, termination)
            ELSE /\ resp' = render("circuits/termination_delete.html",
                                   [termination |-> pk,
                                    form |-> termination_delete_form(method, form),
                                    cancel_url |-> <<"circuits:circuit", termination.circuit>>])
                 /\ UNCHANGED terminations

\* ------------------------------------------------------------ detail views
\* Variant: Graph rows of any type count.
show_graphs_any_type == graphs # {}

\* show_graphs = Graph.objects.filter(type=GRAPH_TYPE_PROVIDER).exists()
show_graphs == GRAPH_TYPE_PROVIDER \in graphs

provider(user, method, slug) ==
    /\ req' = Request("provider", method, user, slug, NoForm, FALSE)
    /\ resp' = IF slug \notin DOMAIN providers
               THEN Http404
               ELSE render("circuits/provider.html",
                           [provider |-> slug,
                            circuits |-> {c \in DOMAIN circuits : circuits[c] = slug},
                            show_graphs |-> show_graphs])
    /\ UNCHANGED <<store, pc, job>>

circuit(user, method, pk) ==
    /\ req' = Request("circuit", method, user, pk, NoForm, FALSE)
    /\ resp' = IF pk \notin DOMAIN circuits
               THEN Http404
               ELSE render("circuits/circuit.html", [circuit |-> pk])
    /\ UNCHANGED <<store, pc, job>>


\* ------------------------------------------------ the generic base views
\* utilities.views.ObjectEditView, after a valid form was saved: back to the
\* creation form when the caller asked to add another, else to the view's
\* success_url when it names one, else to the saved entity's detail page.
ObjectEditView_redirect(add_url, success_url, detail_url, addanother) ==
    IF addanother THEN add_url
    ELSE IF success_url # None THEN <<success_url>>
    ELSE detail_url

\* The page an Edit view renders: the form unbound on GET, bound on POST.
ObjectEditView_render(template, method, form, valid, cancel_url) ==
    render(template,
           [form |-> IF method = "POST" THEN BoundForm(form, valid) ELSE UnboundForm,
            cancel_url |-> <<cancel_url>>])

\* utilities.views.ObjectDeleteView / BulkDeleteView: delete only on a POST
\* whose confirmation form is valid.
ObjectDeleteView_confirmed(method, form) ==
    method = "POST" /\ ConfirmationForm_is_valid(form)

ObjectDeleteView_render(obj, method, form) ==
    render("utilities/obj_delete.html",
           [obj |-> obj,
            form |-> IF method = "POST"
                     THEN BoundForm(form, ConfirmationForm_is_valid(form))
                     ELSE UnboundForm])

DeletedNotice(what) == [text |-> "Deleted {0}", args |-> <<what>>]

\* ---------------------------------------------------------------- Providers
ProviderListView(user, method) ==
    /\ req' = Request("ProviderListView", method, user, None, NoForm, FALSE)
    /\ resp' = render("circuits/provider_list.html",
                      [rows |-> [s \in DOMAIN providers |->
                                   Cardinality({c \in DOMAIN circuits : circuits[c] = s})]])
    /\ UNCHANGED <<store, pc, job>>

\* forms.ProviderForm: the name is required and the slug is unique.
ProviderForm_is_valid(slug, form) ==
    /\ form.name \in Names
    /\ IF slug = None THEN form.slug \notin DOMAIN providers ELSE form.slug = slug

ProviderEditView_permitted(user) == has_perm(user, "circuits.change_provider")

ProviderEditView(user, method, slug, form, addanother) ==
    /\ req' = Request("ProviderEditView", method, user, slug, form, addanother)
    /\ UNCHANGED <<circuitTypes, circuits, terminations, nextCircuitPk,
                   nextTerminationPk, graphs, pc, job>>
    /\ IF ~ProviderEditView_permitted(user)
       THEN resp' = PermissionDenied /\ UNCHANGED providers
       ELSE IF slug # None /\ slug \notin DOMAIN providers
       THEN resp' = Http404 /\ UNCHANGED providers
       ELSE IF method = "POST" /\ ProviderForm_is_valid(slug, form)
       THEN /\ providers' = With(providers, form.slug, form.name)
            /\ resp' = redirect(ObjectEditView_redirect(<<"circuits:provider_add">>, None,
                                    <<"circuits:provider", form.slug>>, addanother), NoNotice)
       ELSE /\ resp' = ObjectEditView_render("circuits/provider_edit.html", method, form,
                            method = "POST" /\ ProviderForm_is_valid(slug, form),
                            "circuits:provider_list")
            /\ UNCHANGED providers

\* What deleting Provider rows does to the Circuits that reference them is
\* not fixed by the views: the store either refuses (protect) or cascades.
ProviderDeleteBlocked(slugs, onDelete) ==
    onDelete = "protect" /\ \E c \in DOMAIN circuits : circuits[c] \in slugs

DeleteProviders(slugs) ==
    LET gone == {c \in DOMAIN circuits : circuits[c] \in slugs}
        d == DeleteCircuits(circuits, terminations, gone)
    IN  /\ providers' = Without(providers, slugs)
        /\ circuits' = d.circuits
        /\ terminations' = d.terminations

ProviderDeleteView_permitted(user) == has_perm(user, "circuits.delete_provider")

ProviderDeleteView(user, method, slug, form, onDelete) ==
    /\ req' = Request("ProviderDeleteView", method, user, slug, form, FALSE)
    /\ UNCHANGED <<circuitTypes, nextCircuitPk, nextTerminationPk, graphs, pc, job>>
    /\ IF ~ProviderDeleteView_permitted(user)
       THEN resp' = PermissionDenied /\ UNCHANGED <<providers, circuits, terminations>>
       ELSE IF slug \notin DOMAIN providers
       THEN resp' = Http404 /\ UNCHANGED <<providers, circuits, terminations>>
       ELSE IF ObjectDeleteView_confirmed(method, form)
       THEN IF ProviderDeleteBlocked({slug}, onDelete)
            THEN resp' = ServerError /\ UNCHANGED <<providers, circuits, terminations>>
            ELSE /\ DeleteProviders({slug})
                 /\ resp' = redirect(<<"circuits:provider_list">>, DeletedNotice(slug))
       ELSE /\ resp' = ObjectDeleteView_render(slug, method, form)
            /\ UNCHANGED <<providers, circuits, terminations>>

\* forms.ProviderImportForm: every row of the batch must be valid, or
\* nothing is imported.
ProviderImport_is_valid(form) ==
    /\ form.slugs # {}
    /\ form.name \in Names
    /\ form.slugs \cap DOMAIN providers = {}

ProviderBulkImportView_permitted(user) == has_perm(user, "circuits.add_provider")

ProviderBulkImportView(user, method, form) ==
    /\ req' = Request("ProviderBulkImportView", method, user, None, form, FALSE)
    /\ UNCHANGED <<circuitTypes, circuits, terminations, nextCircuitPk,
                   nextTerminationPk, graphs, pc, job>>
    /\ IF ~ProviderBulkImportView_permitted(user)
       THEN resp' = PermissionDenied /\ UNCHANGED providers
       ELSE IF method = "POST" /\ ProviderImport_is_valid(form)
       THEN /\ providers' = [s \in DOMAIN providers \cup form.slugs |->
                               IF s \in form.slugs THEN form.name ELSE providers[s]]
            /\ resp' = redirect(<<"circuits:provider_list">>, NoNotice)
       ELSE /\ resp' = ObjectEditView_render("circuits/provider_import.html", method, form,
                            method = "POST" /\ ProviderImport_is_valid(form),
                            "circuits:provider_list")
            /\ UNCHANGED providers

ProviderBulkEditView_permitted(user) == has_perm(user, "circuits.change_provider")

ProviderBulkEditView(user, method, form) ==
    /\ req' = Request("ProviderBulkEditView", method, user, None, form, FALSE)
    /\ UNCHANGED <<circuitTypes, circuits, terminations, nextCircuitPk,
                   nextTerminationPk, graphs, pc, job>>
    /\ IF ~ProviderBulkEditView_permitted(user)
       THEN resp' = PermissionDenied /\ UNCHANGED providers
       ELSE IF method = "POST" /\ form.name \in Names
       THEN /\ providers' = [s \in DOMAIN providers |->
                               IF s \in form.slugs THEN form.name ELSE providers[s]]
            /\ resp' = redirect(<<"circuits:provider_list">>, NoNotice)
       ELSE /\ resp' = ObjectEditView_render("circuits/provider_bulk_edit.html", method, form,
                            method = "POST" /\ form.name \in Names, "circuits:provider_list")
            /\ UNCHANGED providers

ProviderBulkDeleteView_permitted(user) == has_perm(user, "circuits.delete_provider")

ProviderBulkDeleteView(user, method, form, onDelete) ==
    /\ req' = Request("ProviderBulkDeleteView", method, user, None, form, FALSE)
    /\ UNCHANGED <<circuitTypes, nextCircuitPk, nextTerminationPk, graphs, pc, job>>
    /\ IF ~ProviderBulkDeleteView_permitted(user)
       THEN resp' = PermissionDenied /\ UNCHANGED <<providers, circuits, terminations>>
       ELSE IF ObjectDeleteView_confirmed(method, form)
       THEN IF ProviderDeleteBlocked(form.slugs, onDelete)
            THEN resp' = ServerError /\ UNCHANGED <<providers, circuits, terminations>>
            ELSE /\ DeleteProviders(form.slugs)
                 /\ resp' = redirect(<<"circuits:provider_list">>,
                                     DeletedNotice(form.slugs \cap DOMAIN providers))
       ELSE /\ resp' = ObjectDeleteView_render(IF method = "POST" THEN form.slugs ELSE {},
                                                method, form)
            /\ UNCHANGED <<providers, circuits, terminations>>


\* ------------------------------------------------------------ Circuit types
CircuitTypeListView(user, method) ==
    /\ req' = Request("CircuitTypeListView", method, user, None, NoForm, FALSE)
    /\ resp' = render("circuits/circuittype_list.html", [rows |-> DOMAIN circuitTypes])
    /\ UNCHANGED <<store, pc, job>>

CircuitTypeForm_is_valid(slug, form) ==
    /\ form.name \in Names
    /\ IF slug = None THEN form.slug \notin DOMAIN circuitTypes ELSE form.slug = slug

CircuitTypeEditView_permitted(user) == has_perm(user, "circuits.change_circuittype")

\* Variant: no success_url is set.
CircuitTypeEditView_success_url_unset == None

\* success_url = 'circuits:circuittype_list'
CircuitTypeEditView_success_url == "circuits:circuittype_list"

CircuitTypeEditView(user, method, slug, form, addanother) ==
    /\ req' = Request("CircuitTypeEditView", method, user, slug, form, addanother)
    /\ UNCHANGED <<providers, circuits, terminations, nextCircuitPk,
                   nextTerminationPk, graphs, pc, job>>
    /\ IF ~CircuitTypeEditView_permitted(user)
       THEN resp' = PermissionDenied /\ UNCHANGED circuitTypes
       ELSE IF slug # None /\ slug \notin DOMAIN circuitTypes
       THEN resp' = Http404 /\ UNCHANGED circuitTypes
       ELSE IF method = "POST" /\ CircuitTypeForm_is_valid(slug, form)
       THEN /\ circuitTypes' = With(circuitTypes, form.slug, form.name)
            /\ resp' = redirect(ObjectEditView_redirect(<<"circuits:circuittype_add">>,
                                    CircuitTypeEditView_success_url,
                                    <<"circuits:circuittype", form.slug>>, addanother), NoNotice)
       ELSE /\ resp' = ObjectEditView_render("utilities/obj_edit.html", method, form,
                            method = "POST" /\ CircuitTypeForm_is_valid(slug, form),
                            "circuits:circuittype_list")
            /\ UNCHANGED circuitTypes

CircuitTypeBulkDeleteView_permitted(user) == has_perm(user, "circuits.delete_circuittype")

CircuitTypeBulkDeleteView(user, method, form) ==
    /\ req' = Request("CircuitTypeBulkDeleteView", method, user, None, form, FALSE)
    /\ UNCHANGED <<providers, circuits, terminations, nextCircuitPk,
                   nextTerminationPk, graphs, pc, job>>
    /\ IF ~CircuitTypeBulkDeleteView_permitted(user)
       THEN resp' = PermissionDenied /\ UNCHANGED circuitTypes
       ELSE IF ObjectDeleteView_confirmed(method, form)
       THEN /\ circuitTypes' = Without(circuitTypes, form.slugs)
            /\ resp' = redirect(<<"circuits:circuittype_list">>,
                                DeletedNotice(form.slugs \cap DOMAIN circuitTypes))
       ELSE /\ resp' = ObjectDeleteView_render(IF method = "POST" THEN form.slugs ELSE {},
                                                method, form)
            /\ UNCHANGED circuitTypes

\* ------------------------------------------------------------------ Circuits
CircuitListView(user, method) ==
    /\ req' = Request("CircuitListView", method, user, None, NoForm, FALSE)
    /\ resp' = render("circuits/circuit_list.html",
                      [rows |-> [c \in DOMAIN circuits |->
                                   Cardinality({t \in DOMAIN terminations :
                                                  terminations[t].circuit = c})]])
    /\ UNCHANGED <<store, pc, job>>

\* forms.CircuitForm: the provider is required and must be a Provider row.
CircuitForm_is_valid(form) == form.provider \in DOMAIN providers

CircuitEditView_permitted(user) == has_perm(user, "circuits.change_circuit")

CircuitEditView(user, method, pk, form, addanother) ==
    /\ req' = Request("CircuitEditView", method, user, pk, form, addanother)
    /\ UNCHANGED <<providers, circuitTypes, terminations, nextTerminationPk, graphs, pc, job>>
    /\ IF ~CircuitEditView_permitted(user)
       THEN resp' = PermissionDenied /\ UNCHANGED <<circuits, nextCircuitPk>>
       ELSE IF pk # 0 /\ pk \notin DOMAIN circuits
       THEN resp' = Http404 /\ UNCHANGED <<circuits, nextCircuitPk>>
       ELSE IF method = "POST" /\ CircuitForm_is_valid(form)
       THEN LET saved == IF pk = 0 THEN nextCircuitPk ELSE pk IN
            /\ pk = 0 => nextCircuitPk <= MaxCircuitPk
            /\ circuits' = With(circuits, saved, form.provider)
            /\ nextCircuitPk' = IF pk = 0 THEN nextCircuitPk + 1 ELSE nextCircuitPk
            /\ resp' = redirect(ObjectEditView_redirect(<<"circuits:circuit_add">>, None,
                                    <<"circuits:circuit", saved>>, addanother), NoNotice)
       ELSE /\ resp' = ObjectEditView_render("circuits/circuit_edit.html", method, form,
                            method = "POST" /\ CircuitForm_is_valid(form),
                            "circuits:circuit_list")
            /\ UNCHANGED <<circuits, nextCircuitPk>>

CircuitDeleteView_permitted(user) == has_perm(user, "circuits.delete_circuit")

CircuitDeleteView(user, method, pk, form) ==
    /\ req' = Request("CircuitDeleteView", method, user, pk, form, FALSE)
    /\ UNCHANGED <<providers, circuitTypes, nextCircuitPk, nextTerminationPk, graphs, pc, job>>
    /\ IF ~CircuitDeleteView_permitted(user)
       THEN resp' = PermissionDenied /\ UNCHANGED <<circuits, terminations>>
       ELSE IF pk \notin DOMAIN circuits
       THEN resp' = Http404 /\ UNCHANGED <<circuits, terminations>>
       ELSE IF ObjectDeleteView_confirmed(method, form)
       THEN LET d == DeleteCircuits(circuits, terminations, {pk}) IN
            /\ circuits' = d.circuits
            /\ terminations' = d.terminations
            /\ resp' = redirect(<<"circuits:circuit_list">>, DeletedNotice(CircuitName(pk)))
       ELSE /\ resp' = ObjectDeleteView_render(pk, method, form)
            /\ UNCHANGED <<circuits, terminations>>

\* forms.CircuitImportForm: a batch of form.count rows for one provider.
CircuitImport_is_valid(form) == form.count > 0 /\ form.provider \in DOMAIN providers

CircuitBulkImportView_permitted(user) == has_perm(user, "circuits.add_circuit")

CircuitBulkImportView(user, method, form) ==
    /\ req' = Request("CircuitBulkImportView", method, user, None, form, FALSE)
    /\ UNCHANGED <<providers, circuitTypes, terminations, nextTerminationPk, graphs, pc, job>>
    /\ IF ~CircuitBulkImportView_permitted(user)
       THEN resp' = PermissionDenied /\ UNCHANGED <<circuits, nextCircuitPk>>
       ELSE IF method = "POST" /\ CircuitImport_is_valid(form)
       THEN LET new == nextCircuitPk .. (nextCircuitPk + form.count - 1) IN
            /\ nextCircuitPk + form.count - 1 <= MaxCircuitPk
            /\ circuits' = [c \in DOMAIN circuits \cup new |->
                              IF c \in new THEN form.provider ELSE circuits[c]]
            /\ nextCircuitPk' = nextCircuitPk + form.count
            /\ resp' = redirect(<<"circuits:circuit_list">>, NoNotice)
       ELSE /\ resp' = ObjectEditView_render("circuits/circuit_import.html", method, form,
                            method = "POST" /\ CircuitImport_is_valid(form),
                            "circuits:circuit_list")
            /\ UNCHANGED <<circuits, nextCircuitPk>>

CircuitBulkEditView_permitted(user) == has_perm(user, "circuits.change_circuit")

CircuitBulkEditView(user, method, form) ==
    /\ req' = Request("CircuitBulkEditView", method, user, None, form, FALSE)
    /\ UNCHANGED <<providers, circuitTypes, terminations, nextCircuitPk,
                   nextTerminationPk, graphs, pc, job>>
    /\ IF ~CircuitBulkEditView_permitted(user)
       THEN resp' = PermissionDenied /\ UNCHANGED circuits
       ELSE IF method = "POST" /\ form.provider \in DOMAIN providers
       THEN /\ circuits' = [c \in DOMAIN circuits |->
                              IF c \in form.pks THEN form.provider ELSE circuits[c]]
            /\ resp' = redirect(<<"circuits:circuit_list">>, NoNotice)
       ELSE /\ resp' = ObjectEditView_render("circuits/circuit_bulk_edit.html", method, form,
                            method = "POST" /\ form.provider \in DOMAIN providers,
                            "circuits:circuit_list")
            /\ UNCHANGED circuits

CircuitBulkDeleteView_permitted(user) == has_perm(user, "circuits.delete_circuit")

CircuitBulkDeleteView(user, method, form) ==
    /\ req' = Request("CircuitBulkDeleteView", method, user, None, form, FALSE)
    /\ UNCHANGED <<providers, circuitTypes, nextCircuitPk, nextTerminationPk, graphs, pc, job>>
    /\ IF ~CircuitBulkDeleteView_permitted(user)
       THEN resp' = PermissionDenied /\ UNCHANGED <<circuits, terminations>>
       ELSE IF ObjectDeleteView_confirmed(method, form)
       THEN LET d == DeleteCircuits(circuits, terminations, form.pks) IN
            /\ circuits' = d.circuits
            /\ terminations' = d.terminations
            /\ resp' = redirect(<<"circuits:circuit_list">>,
                                DeletedNotice(form.pks \cap DOMAIN circuits))
       ELSE /\ resp' = ObjectDeleteView_render(IF method = "POST" THEN form.pks ELSE {},
                                                method, form)
            /\ UNCHANGED <<circuits, terminations>>

\* ------------------------------------------------------ TerminationEditView
TerminationEditView_permitted(user) == has_perm(user, "circuits.change_circuit")

\* The Termination the generic Edit view saves: the form's fields over a new
\* row (create) or over the row fetched by pk (update, which keeps the
\* row's circuit when the form posts none).
TerminationEditView_obj(pk, form) ==
    IF pk = 0 \/ form.circuit # 0
    THEN form_save_commit_false(form)
    ELSE [circuit |-> terminations[pk].circuit, site |-> form.site]

TerminationEditView(user, method, pk, form, addanother) ==
    /\ req' = Request("TerminationEditView", method, user, pk, form, addanother)
    /\ UNCHANGED <<providers, circuitTypes, circuits, nextCircuitPk, graphs, pc, job>>
    /\ IF ~TerminationEditView_permitted(user)
       THEN resp' = PermissionDenied /\ UNCHANGED <<terminations, nextTerminationPk>>
       ELSE IF pk # 0 /\ pk \notin DOMAIN terminations
       THEN resp' = Http404 /\ UNCHANGED <<terminations, nextTerminationPk>>
       ELSE IF method = "POST" /\ TerminationForm_is_valid(form)
       THEN LET obj == TerminationEditView_obj(pk, form)
                saved == IF pk = 0 THEN nextTerminationPk ELSE pk
            IN  /\ pk = 0 => nextTerminationPk <= MaxTerminationPk
                /\ IF CanSaveTermination(circuits, obj)
                   THEN /\ terminations' = With(terminations, saved, obj)
                        /\ nextTerminationPk' =
                              IF pk = 0 THEN nextTerminationPk + 1 ELSE nextTerminationPk
                        /\ resp' = redirect(ObjectEditView_redirect(
                                      <<"circuits:termination_add">>, None,
                                      <<"circuits:termination", saved>>, addanother), NoNotice)
                   ELSE /\ resp' = ServerError
                        /\ UNCHANGED <<terminations, nextTerminationPk>>
       ELSE /\ resp' = ObjectEditView_render("circuits/termination_edit.html", method, form,
                            method = "POST" /\ TerminationForm_is_valid(form),
                            "circuits:circuit_list")
            /\ UNCHANGED <<terminations, nextTerminationPk>>


\* ------------------------------------------------- requests, one at a time
\* The posted site: one of Sites, or None (the field is missing).  The posted
\* circuit: 0 (none), a Circuit pk, or a pk past the last one.
TerminationForms ==
    [site : Sites, circuit : 0..(MaxCircuitPk + 1)] \cup [site : {None}, circuit : {0}]
ConfirmationForms == [confirm : BOOLEAN]
SlugForms(slugs) == [name : Names \cup {""}, slug : slugs]
SlugBatches(slugs) == [name : Names \cup {""}, slugs : SUBSET slugs]
SlugSelections(slugs) == [slugs : SUBSET slugs, confirm : BOOLEAN]
CircuitForms == [provider : Slugs \cup {None}]
CircuitBatches == [provider : Slugs \cup {None}, count : 0..MaxCircuitPk]
CircuitEdits == [provider : Slugs \cup {None}, pks : SUBSET CircuitPks]
CircuitSelections == [pks : SUBSET CircuitPks, confirm : BOOLEAN]

\* What the store does on deleting a referenced Provider is chosen when a
\* delete is confirmed.
OnDeleteOf(method, f) ==
    IF method = "POST" /\ f.confirm THEN {"cascade", "protect"} ELSE {"cascade"}

\* A GET carries no form and no "_addanother".
FormsOf(method, forms) == IF method = "POST" THEN forms ELSE {NoForm}
FlagsOf(method) == IF method = "POST" THEN BOOLEAN ELSE {FALSE}

Procs == {"add", "cdel", "tdel1", "tdel2"}
NoJob == [pk |-> 0, form |-> NoForm, fetched |-> NoForm, outcome |-> None]

\* The tables this module writes start empty, and so does the Graph table,
\* which no view of this module writes.
Init ==
    /\ providers = <<>>
    /\ circuitTypes = <<>>
    /\ circuits = <<>>
    /\ terminations = <<>>
    /\ nextCircuitPk = 1
    /\ nextTerminationPk = 1
    /\ graphs = {}
    /\ req = Request(None, None, None, None, NoForm, FALSE)
    /\ resp = Response(None, None, NoContext, NoTarget, NoNotice)
    /\ pc = [p \in Procs |-> "idle"]
    /\ job = [p \in Procs |-> NoJob]

ProviderRequests ==
    \/ \E u \in Users, m \in Methods : ProviderListView(u, m)
    \/ \E u \in Users, m \in Methods, s \in Slugs : provider(u, m, s)
    \/ \E u \in Users, m \in Methods, s \in Slugs \cup {None} :
         \E f \in FormsOf(m, SlugForms(IF s = None THEN Slugs ELSE {s})), a \in FlagsOf(m) :
            ProviderEditView(u, m, s, f, a)
    \/ \E u \in Users, m \in Methods, s \in Slugs :
         \E f \in FormsOf(m, ConfirmationForms) :
            \E d \in OnDeleteOf(m, f) : ProviderDeleteView(u, m, s, f, d)
    \/ \E u \in Users, m \in Methods :
         \E f \in FormsOf(m, SlugBatches(Slugs)) : ProviderBulkImportView(u, m, f)
    \/ \E u \in Users, m \in Methods :
         \E f \in FormsOf(m, SlugBatches(Slugs)) : ProviderBulkEditView(u, m, f)
    \/ \E u \in Users, m \in Methods :
         \E f \in FormsOf(m, SlugSelections(Slugs)) :
            \E d \in OnDeleteOf(m, f) : ProviderBulkDeleteView(u, m, f, d)

CircuitTypeRequests ==
    \/ \E u \in Users, m \in Methods : CircuitTypeListView(u, m)
    \/ \E u \in Users, m \in Methods, s \in TypeSlugs \cup {None} :
         \E f \in FormsOf(m, SlugForms(IF s = None THEN TypeSlugs ELSE {s})), a \in FlagsOf(m) :
            CircuitTypeEditView(u, m, s, f, a)
    \/ \E u \in Users, m \in Methods :
         \E f \in FormsOf(m, SlugSelections(TypeSlugs)) : CircuitTypeBulkDeleteView(u, m, f)

CircuitRequests ==
    \/ \E u \in Users, m \in Methods : CircuitListView(u, m)
    \/ \E u \in Users, m \in Methods, pk \in CircuitPks : circuit(u, m, pk)
    \/ \E u \in Users, m \in Methods, pk \in {0} \cup CircuitPks :
         \E f \in FormsOf(m, CircuitForms), a \in FlagsOf(m) : CircuitEditView(u, m, pk, f, a)
    \/ \E u \in Users, m \in Methods, pk \in CircuitPks :
         \E f \in FormsOf(m, ConfirmationForms) : CircuitDeleteView(u, m, pk, f)
    \/ \E u \in Users, m \in Methods :
         \E f \in FormsOf(m, CircuitBatches) : CircuitBulkImportView(u, m, f)
    \/ \E u \in Users, m \in Methods :
         \E f \in FormsOf(m, CircuitEdits) : CircuitBulkEditView(u, m, f)
    \/ \E u \in Users, m \in Methods :
         \E f \in FormsOf(m, CircuitSelections) : CircuitBulkDeleteView(u, m, f)

TerminationRequests ==
    \/ \E u \in Users, m \in Methods, pk \in CircuitPks :
         \E f \in FormsOf(m, TerminationForms), a \in FlagsOf(m) : termination_add(u, m, pk, f, a)
    \/ \E u \in Users, m \in Methods, pk \in {0} \cup TerminationPks :
         \E f \in FormsOf(m, TerminationForms), a \in FlagsOf(m) :
            TerminationEditView(u, m, pk, f, a)
    \/ \E u \in Users, m \in Methods, pk \in TerminationPks :
         \E f \in FormsOf(m, ConfirmationForms) : termination_delete(u, m, pk, f)

Next == ProviderRequests \/ CircuitTypeRequests \/ CircuitRequests \/ TerminationRequests

Spec == Init /\ [][Next]_vars


\* ------------------------------------------------------- the detail views
\* The Graph rows are written outside this module, so the detail views are
\* run against every content of the Graph table; the edit views create the
\* Provider and the Circuit the detail views show.
InitG ==
    /\ providers = <<>>
    /\ circuitTypes = <<>>
    /\ circuits = <<>>
    /\ terminations = <<>>
    /\ nextCircuitPk = 1
    /\ nextTerminationPk = 1
    /\ graphs \in SUBSET GraphTypes
    /\ req = Request(None, None, None, None, NoForm, FALSE)
    /\ resp = Response(None, None, NoContext, NoTarget, NoNotice)
    /\ pc = [p \in Procs |-> "idle"]
    /\ job = [p \in Procs |-> NoJob]

NextG ==
    \/ \E u \in Users, m \in Methods, s \in Slugs : provider(u, m, s)
    \/ \E u \in Users, m \in Methods, pk \in CircuitPks : circuit(u, m, pk)
    \/ \E u \in Users, m \in Methods, s \in Slugs \cup {None} :
         \E f \in FormsOf(m, SlugForms(IF s = None THEN Slugs ELSE {s})), a \in FlagsOf(m) :
            ProviderEditView(u, m, s, f, a)
    \/ \E u \in Users, m \in Methods, pk \in {0} \cup CircuitPks :
         \E f \in FormsOf(m, CircuitForms), a \in FlagsOf(m) : CircuitEditView(u, m, pk, f, a)
    \/ \E u \in Users, m \in Methods, pk \in CircuitPks :
         \E f \in FormsOf(m, ConfirmationForms) : CircuitDeleteView(u, m, pk, f)

SpecG == InitG /\ [][NextG]_vars


\* ------------------------------------------------- interleaved handlers
\* Four requests in flight at once, each a permitted caller's POST with a
\* valid form, interleaved at the granularity of their store accesses: the
\* fetch (get_object_or_404), then the save or delete.  "add" runs
\* termination_add, "cdel" CircuitDeleteView, "tdel1"/"tdel2" termination_delete.
InitC ==
    /\ providers = [s \in Slugs |-> CHOOSE n \in Names : TRUE]
    /\ circuitTypes = <<>>
    /\ circuits = [c \in CircuitPks |-> CHOOSE s \in Slugs : TRUE]
    /\ terminations = [t \in TerminationPks |->
                         [circuit |-> ((t - 1) % MaxCircuitPk) + 1,
                          site |-> CHOOSE x \in Sites : TRUE]]
    /\ nextCircuitPk = MaxCircuitPk + 1
    /\ nextTerminationPk = MaxTerminationPk + 1
    /\ graphs = {}
    /\ req = Request(None, None, None, None, NoForm, FALSE)
    /\ resp = Response(None, None, NoContext, NoTarget, NoNotice)
    /\ pc = [p \in Procs |-> "idle"]
    /\ job = [p \in Procs |-> NoJob]

Fetched(p, pk, form, row) ==
    /\ pc' = [pc EXCEPT ![p] = "fetched"]
    /\ job' = [job EXCEPT ![p] = [pk |-> pk, form |-> form, fetched |-> row, outcome |-> None]]

Missed(p, pk, form) ==
    /\ pc' = [pc EXCEPT ![p] = "done"]
    /\ job' = [job EXCEPT ![p] = [pk |-> pk, form |-> form, fetched |-> NoForm,
                                  outcome |-> Http404.kind]]

Finished(p, outcome) ==
    /\ pc' = [pc EXCEPT ![p] = "done"]
    /\ job' = [job EXCEPT ![p].outcome = outcome.kind]

\* termination_add: circuit = get_object_or_404(Circuit, pk=pk)
add_fetch(pk, form) ==
    /\ pc["add"] = "idle"
    /\ IF termination_add_not_found("POST", pk)
       THEN Missed("add", pk, form)
       ELSE Fetched("add", pk, form, [pk |-> pk, provider |-> circuits[pk]])
    /\ UNCHANGED <<store, req, resp>>

\* termination_add: new_termination.circuit = circuit; new_termination.save()
add_save ==
    /\ pc["add"] = "fetched"
    /\ termination_add_saves("POST", job["add"].form)
    /\ LET t == new_termination(job["add"].form, job["add"].fetched.pk) IN
       IF CanSaveTermination(circuits, t)
       THEN /\ terminations' = With(terminations, nextTerminationPk, t)
            /\ nextTerminationPk' = nextTerminationPk + 1
            /\ Finished("add", redirect(termination_add_redirect(job["add"].pk, FALSE), NoNotice))
       ELSE /\ Finished("add", ServerError)
            /\ UNCHANGED <<terminations, nextTerminationPk>>
    /\ UNCHANGED <<providers, circuitTypes, circuits, nextCircuitPk, graphs, req, resp>>

\* CircuitDeleteView: the object is fetched by pk
cdel_fetch(pk) ==
    /\ pc["cdel"] = "idle"
    /\ IF pk \notin DOMAIN circuits
       THEN Missed("cdel", pk, [confirm |-> TRUE])
       ELSE Fetched("cdel", pk, [confirm |-> TRUE], [pk |-> pk, provider |-> circuits[pk]])
    /\ UNCHANGED <<store, req, resp>>

\* CircuitDeleteView: the confirmed delete, cascading in the store
cdel_delete ==
    /\ pc["cdel"] = "fetched"
    /\ ObjectDeleteView_confirmed("POST", job["cdel"].form)
    /\ LET d == DeleteCircuits(circuits, terminations, {job["cdel"].fetched.pk}) IN
       /\ circuits' = d.circuits
       /\ terminations' = d.terminations
    /\ Finished("cdel", redirect(<<"circuits:circuit_list">>, NoNotice))
    /\ UNCHANGED <<providers, circuitTypes, nextCircuitPk, nextTerminationPk, graphs, req, resp>>

\* termination_delete: termination = get_object_or_404(Termination, pk=pk)
tdel_fetch(p, pk) ==
    /\ pc[p] = "idle"
    /\ IF pk \notin DOMAIN terminations
       THEN Missed(p, pk, [confirm |-> TRUE])
       ELSE Fetched(p, pk, [confirm |-> TRUE], terminations[pk])
    /\ UNCHANGED <<store, req, resp>>

\* termination_delete: termination.delete(), the notice and the redirect
tdel_delete(p) ==
    /\ pc[p] = "fetched"
    /\ termination_delete_confirmed("POST", job[p].form)
    /\ terminations' = termination_delete_rows(terminations, job[p].pk, job[p].fetched)
    /\ Finished(p, termination_delete_done(circuits, job[p].fetched))
    /\ UNCHANGED <<providers, circuitTypes, circuits, nextCircuitPk,
                   nextTerminationPk, graphs, req, resp>>

NextC ==
    \/ \E pk \in CircuitPks, f \in {g \in TerminationForms : TerminationForm_is_valid(g)} :
         add_fetch(pk, f)
    \/ add_save
    \/ \E pk \in CircuitPks : cdel_fetch(pk)
    \/ cdel_delete
    \/ \E p \in {"tdel1", "tdel2"}, pk \in TerminationPks : tdel_fetch(p, pk)
    \/ \E p \in {"tdel1", "tdel2"} : tdel_delete(p)

SpecC == InitC /\ [][NextC]_vars


\* ================================================================ properties
\* The request handled by a step is req', its response resp'; the store
\* before the step is the unprimed store.

\* The permission each write route names (views.py, per route).
RequiredPermission(view) ==
    CASE view \in {"ProviderEditView", "ProviderBulkEditView"} -> "circuits.change_provider"
      [] view \in {"ProviderDeleteView", "ProviderBulkDeleteView"} -> "circuits.delete_provider"
      [] view = "ProviderBulkImportView" -> "circuits.add_provider"
      [] view = "CircuitTypeEditView" -> "circuits.change_circuittype"
      [] view = "CircuitTypeBulkDeleteView" -> "circuits.delete_circuittype"
      [] view \in {"CircuitEditView", "CircuitBulkEditView",
                   "termination_add", "TerminationEditView"} -> "circuits.change_circuit"
      [] view \in {"CircuitDeleteView", "CircuitBulkDeleteView",
                   "termination_delete"} -> "circuits.delete_circuit"
      [] view = "CircuitBulkImportView" -> "circuits.add_circuit"

WriteRoutes ==
    {"ProviderEditView", "ProviderDeleteView", "ProviderBulkImportView",
     "ProviderBulkEditView", "ProviderBulkDeleteView",
     "CircuitTypeEditView", "CircuitTypeBulkDeleteView",
     "CircuitEditView", "CircuitDeleteView", "CircuitBulkImportView",
     "CircuitBulkEditView", "CircuitBulkDeleteView",
     "termination_add", "TerminationEditView", "termination_delete"}

\* The caller of request r holds the permission r's route requires.
Permitted(r) ==
    r.view \in WriteRoutes => RequiredPermission(r.view) \in UserPerms(r.user)

\* A step that handles a request (every step of Spec does).
Handled == req'.view # None

C2_CircuitFromUrl ==
    [][(Handled /\ req'.view = "termination_add")
         => LET creates == /\ req'.method = "POST"
                           /\ Permitted(req')
                           /\ req'.id \in DOMAIN circuits
                           /\ req'.form.site \in Sites
            IN  IF creates
                THEN /\ \E k \in TerminationPks \ DOMAIN terminations :
                          /\ DOMAIN terminations' = DOMAIN terminations \cup {k}
                          /\ terminations'[k].circuit = req'.id
                          /\ terminations'[k].site = req'.form.site
                          /\ \A j \in DOMAIN terminations : terminations'[j] = terminations[j]
                     /\ <<providers, circuitTypes, circuits, graphs>>'
                          = <<providers, circuitTypes, circuits, graphs>>
                ELSE store' = store]_vars

\* A termination was just created for circuit req.id from a form that
\* posted a different circuit.
C2_Witness ==
    /\ req.view = "termination_add"
    /\ resp.kind = "Redirect"
    /\ req.form.circuit \notin {0, req.id}
    /\ (nextTerminationPk - 1) \in DOMAIN terminations
    /\ terminations[nextTerminationPk - 1].circuit = req.id

\* C3: in every reachable state every stored Termination references a
\* Circuit that is in the store.
C3_NoDanglingTermination ==
    \A t \in DOMAIN terminations : terminations[t].circuit \in DOMAIN circuits

\* A circuit that had been given a termination was deleted: the store holds
\* no circuit, and the termination went with it.
C3_Witness ==
    /\ req.view \in {"CircuitDeleteView", "CircuitBulkDeleteView"}
    /\ resp.kind = "Redirect"
    /\ nextTerminationPk > 1
    /\ DOMAIN circuits = {}
    /\ DOMAIN terminations = {}


EditViews ==
    {"ProviderEditView", "CircuitTypeEditView", "CircuitEditView",
     "TerminationEditView", "termination_add"}

\* The row request r addresses is in the store (an Edit view without an
\* identifier, None or 0, is in create mode and addresses none).
Missing(r) ==
    CASE r.view \in {"provider", "ProviderEditView", "ProviderDeleteView"} ->
            r.id # None /\ r.id \notin DOMAIN providers
      [] r.view = "CircuitTypeEditView" -> r.id # None /\ r.id \notin DOMAIN circuitTypes
      [] r.view \in {"circuit", "CircuitDeleteView", "termination_add"} ->
            r.id \notin DOMAIN circuits
      [] r.view = "CircuitEditView" -> r.id # 0 /\ r.id \notin DOMAIN circuits
      [] r.view = "termination_delete" -> r.id \notin DOMAIN terminations
      [] r.view = "TerminationEditView" -> r.id # 0 /\ r.id \notin DOMAIN terminations
      [] OTHER -> FALSE

\* The form request r posts to an Edit view violates the entity's
\* constraints: a required field is missing, a slug is taken, a reference
\* names no row.
FailsValidation(r) ==
    CASE r.view \in {"termination_add", "TerminationEditView"} -> r.form.site \notin Sites
      [] r.view = "ProviderEditView" ->
            r.form.name \notin Names \/ (r.id = None /\ r.form.slug \in DOMAIN providers)
      [] r.view = "CircuitTypeEditView" ->
            r.form.name \notin Names \/ (r.id = None /\ r.form.slug \in DOMAIN circuitTypes)
      [] r.view = "CircuitEditView" -> r.form.provider \notin DOMAIN providers

\* A step that handles a POST to an Edit view by a permitted caller whose
\* target, if any, exists: the form gets validated.
Submit ==
    /\ Handled
    /\ req'.view \in EditViews
    /\ req'.method = "POST"
    /\ Permitted(req')
    /\ ~Missing(req')

\* C4: a submit whose form fails validation re-renders the same form, bound
\* to the posted data and carrying its errors; there is no redirect and the
\* store is unchanged.
C4_InvalidFormNotSaved ==
    [][(Submit /\ FailsValidation(req'))
         => /\ resp'.kind = "Rendered"
            /\ resp'.context.form.bound
            /\ resp'.context.form.errors
            /\ resp'.context.form.data = req'.form
            /\ store' = store]_vars

\* An invalid TerminationForm (no site) was posted to an existing circuit
\* and came back with its errors.
C4_Witness ==
    /\ req.view = "termination_add"
    /\ req.method = "POST"
    /\ req.form.site \notin Sites
    /\ req.id \in DOMAIN circuits
    /\ resp.kind = "Rendered"
    /\ resp.context.form.errors

\* C5: provider, circuit, termination_add and termination_delete, called by
\* a permitted caller with an identifier that matches no row, answer
\* NotFound for GET and POST alike, and leave the store unchanged.
C5_NotFound ==
    [][(/\ Handled
        /\ req'.view \in {"provider", "circuit", "termination_add", "termination_delete"}
        /\ Permitted(req')
        /\ Missing(req'))
         => (resp'.kind = "NotFound" /\ store' = store)]_vars

\* A GET of termination_add for a circuit that is not in the store.
C5_Witness ==
    /\ req.view = "termination_add"
    /\ req.method = "GET"
    /\ req.id \notin DOMAIN circuits
    /\ resp.kind = "NotFound"

Names_in(notice, name) == \E i \in DOMAIN notice.args : notice.args[i] = name

\* C6: a confirmed termination_delete(pk) POST removes exactly the row pk,
\* keeps every other Termination and every Circuit (the parent included),
\* gives a notice naming the termination and its parent circuit, and
\* redirects to the parent circuit's detail page.
C6_TerminationDelete ==
    [][(/\ Handled
        /\ req'.view = "termination_delete"
        /\ req'.method = "POST"
        /\ Permitted(req')
        /\ ~Missing(req')
        /\ req'.form.confirm)
         => LET t == terminations[req'.id] IN
            /\ terminations' = [k \in DOMAIN terminations \ {req'.id} |-> terminations[k]]
            /\ <<providers, circuitTypes, circuits, graphs>>'
                 = <<providers, circuitTypes, circuits, graphs>>
            /\ t.circuit \in DOMAIN circuits'
            /\ resp'.kind = "Redirect"
            /\ Names_in(resp'.notice, TerminationName(t))
            /\ Names_in(resp'.notice, CircuitName(t.circuit))
            /\ resp'.target = <<"circuits:circuit", t.circuit>>]_vars

\* A termination was deleted while a sibling on the same circuit stays.
C6_Witness ==
    /\ req.view = "termination_delete"
    /\ resp.kind = "Redirect"
    /\ req.id \notin DOMAIN terminations
    /\ \E k \in DOMAIN terminations : resp.target = <<"circuits:circuit", terminations[k].circuit>>

DeleteViews ==
    {"ProviderDeleteView", "CircuitDeleteView", "termination_delete",
     "ProviderBulkDeleteView", "CircuitTypeBulkDeleteView", "CircuitBulkDeleteView"}

RowsRemoved ==
    \/ DOMAIN providers \ DOMAIN providers' # {}
    \/ DOMAIN circuitTypes \ DOMAIN circuitTypes' # {}
    \/ DOMAIN circuits \ DOMAIN circuits' # {}
    \/ DOMAIN terminations \ DOMAIN terminations' # {}

\* C7: rows leave the store only in a step that handles a POST to a Delete
\* view with a valid confirmation; a GET to a Delete view, and a POST whose
\* confirmation is not given, render the confirmation prompt and delete nothing.
C7_DeleteOnlyConfirmed ==
    [][/\ RowsRemoved =>
            (req'.view \in DeleteViews /\ req'.method = "POST" /\ req'.form.confirm)
       /\ (/\ Handled
           /\ req'.view \in {"ProviderDeleteView", "CircuitDeleteView", "termination_delete"}
           /\ Permitted(req')
           /\ ~Missing(req')
           /\ ~(req'.method = "POST" /\ req'.form.confirm))
            => /\ resp'.kind = "Rendered"
               /\ resp'.template \in {"utilities/obj_delete.html",
                                      "circuits/termination_delete.html"}
               /\ store' = store]_vars

\* An unconfirmed POST to termination_delete for a stored termination got
\* the prompt again, and the termination is still there.
C7_Witness ==
    /\ req.view = "termination_delete"
    /\ req.method = "POST"
    /\ ~req.form.confirm
    /\ req.id \in DOMAIN terminations
    /\ resp.kind = "Rendered"

\* The identifier of the row a valid submit saves.
SavedId(r) ==
    CASE r.view \in {"ProviderEditView", "CircuitTypeEditView"} -> r.form.slug
      [] r.view = "CircuitEditView" -> IF r.id = 0 THEN nextCircuitPk ELSE r.id
      [] r.view = "TerminationEditView" -> IF r.id = 0 THEN nextTerminationPk ELSE r.id
      [] r.view = "termination_add" -> nextTerminationPk

\* The saved row is in the store after the step, with the form's content.
Persisted(r) ==
    CASE r.view = "ProviderEditView" ->
            SavedId(r) \in DOMAIN providers' /\ providers'[SavedId(r)] = r.form.name
      [] r.view = "CircuitTypeEditView" ->
            SavedId(r) \in DOMAIN circuitTypes' /\ circuitTypes'[SavedId(r)] = r.form.name
      [] r.view = "CircuitEditView" ->
            SavedId(r) \in DOMAIN circuits' /\ circuits'[SavedId(r)] = r.form.provider
      [] r.view \in {"TerminationEditView", "termination_add"} ->
            SavedId(r) \in DOMAIN terminations' /\ terminations'[SavedId(r)].site = r.form.site

DetailPage(r) ==
    CASE r.view = "ProviderEditView" -> <<"circuits:provider", SavedId(r)>>
      [] r.view = "CircuitTypeEditView" -> <<"circuits:circuittype", SavedId(r)>>
      [] r.view = "CircuitEditView" -> <<"circuits:circuit", SavedId(r)>>
      [] r.view \in {"TerminationEditView", "termination_add"} ->
            <<"circuits:termination", SavedId(r)>>

CreationForm(r) ==
    CASE r.view = "ProviderEditView" -> <<"circuits:provider_add">>
      [] r.view = "CircuitTypeEditView" -> <<"circuits:circuittype_add">>
      [] r.view = "CircuitEditView" -> <<"circuits:circuit_add">>
      [] r.view = "TerminationEditView" -> <<"circuits:termination_add">>
      [] r.view = "termination_add" -> <<"circuits:termination_add", r.id>>

\* Where a view sends the caller after a valid submit without "add another".
SuccessLocation(r) ==
    CASE r.view = "CircuitTypeEditView" -> <<"circuits:circuittype_list">>
      [] r.view = "termination_add" -> <<"circuits:circuit", r.id>>
      [] OTHER -> DetailPage(r)

\* A submit with a valid form that the store accepts.
ValidSubmit == Submit /\ ~FailsValidation(req') /\ resp'.kind # "ServerError"

C9_Original ==
    (req.view = "circuit" /\ resp.kind = "Rendered")
      => /\ "show_graphs" \in DOMAIN resp.context
         /\ resp.context.show_graphs = (graphs # {})

\* C9 amended: it is the Provider detail view whose page carries the flag
\* show_graphs, true exactly when a Graph of the provider type is in the
\* store; the Circuit detail page carries the circuit only; neither view
\* changes the store.
C9_ProviderShowGraphs ==
    [][(Handled /\ req'.view \in {"provider", "circuit"})
         => /\ store' = store
            /\ resp'.kind = "Rendered" =>
                 IF req'.view = "provider"
                 THEN resp'.context.show_graphs = (GRAPH_TYPE_PROVIDER \in graphs)
                 ELSE DOMAIN resp'.context = {"circuit"}]_vars

\* A provider page rendered without the flag although a Graph row (of
\* another type) is in the store.
C9_Witness ==
    /\ req.view = "provider"
    /\ resp.kind = "Rendered"
    /\ ~resp.context.show_graphs
    /\ graphs # {}


\* ---------------------------------------------- interleaved handlers (SpecC)
\* Handler p takes its second step: the save or delete after its fetch.
Writes(p) == pc[p] = "fetched" /\ pc'[p] = "done"

\* The row handler p fetched has since been deleted by another handler.
Stale(p) ==
    IF p \in {"add", "cdel"}
    THEN job[p].pk \notin DOMAIN circuits
    ELSE job[p].pk \notin DOMAIN terminations

RemovedCircuits == DOMAIN circuits \ DOMAIN circuits'
RemovedTerminations == DOMAIN terminations \ DOMAIN terminations'

\* C10: with the handlers interleaved between fetch and save/delete, no
\* Termination is ever left with an absent circuit; a step removes only the
\* rows its handler targets (termination_delete: the termination pk;
\* CircuitDeleteView: the circuit pk and its terminations; termination_add:
\* none) and changes no row that stays; and a handler whose fetched row was
\* deleted meanwhile leaves the store as it is, termination_add failing with
\* a store error instead of saving.
C10_RacesKeepStoreConsistent ==
    [][/\ \A t \in DOMAIN terminations' : terminations'[t].circuit \in DOMAIN circuits'
       /\ \A k \in DOMAIN terminations \cap DOMAIN terminations' :
             terminations'[k] = terminations[k]
       /\ \A k \in DOMAIN circuits \cap DOMAIN circuits' : circuits'[k] = circuits[k]
       /\ (\A p \in Procs : ~Writes(p)) => store' = store
       /\ \A p \in Procs : Writes(p) =>
             /\ CASE p = "add" -> RemovedCircuits = {} /\ RemovedTerminations = {}
                  [] p = "cdel" ->
                        /\ RemovedCircuits \subseteq {job[p].pk}
                        /\ \A t \in RemovedTerminations : terminations[t].circuit = job[p].pk
                  [] OTHER ->
                        /\ RemovedCircuits = {}
                        /\ RemovedTerminations \subseteq {job[p].pk}
             /\ Stale(p) =>
                   /\ store' = store
                   /\ p = "add" => job'[p].outcome = "ServerError"]_vars

\* Every handler is done: termination_add lost its circuit to the circuit
\* deletion and failed, and the two termination_delete handlers had both
\* fetched the same termination.
C10_Witness ==
    /\ \A p \in Procs : pc[p] = "done"
    /\ job["add"].outcome = "ServerError"
    /\ job["cdel"].outcome = "Redirect"
    /\ job["tdel1"].pk = job["tdel2"].pk
    /\ job["tdel1"].outcome # "NotFound"
    /\ job["tdel2"].outcome # "NotFound"

====
